---------------------------- MODULE Spec2Model ----------------------------
(***************************************************************************)
(* The shared in-memory users store of src/src/context.rs (UsersState):    *)
(* a HashMap<u64, UserWithoutId> and a u64 counter, each behind its own    *)
(* tokio Mutex, used by the five request handlers get_users, get_user,     *)
(* create_user, update_user and delete_user.  Every request is a caller;   *)
(* the steps of a caller are the lock acquisitions (the .await points) and *)
(* the reads and writes that the method body performs under the lock.      *)
(***************************************************************************)
EXTENDS Integers, Sequences, FiniteSets, TLC

\* ------------------------------------------------------------------ bounds
NumCallers == 2          \* concurrent requests
MaxCreates == 2          \* create requests accepted in one run

Callers == 1..NumCallers
Ids     == 0..MaxCreates \* identifiers a request may name (0 is never issued)

None  == "None"          \* Option::None
Unlocked == 0            \* a mutex nobody holds (callers are 1..NumCallers)

\* UserWithoutId (context.rs 645-649): the bodies of POST /users used here
NewUsers == {[name |-> "jdoe", email |-> "j@x.com"],
             [name |-> "B", email |-> "j2@x.com"]}
\* UpdateUserRequest (context.rs 639-643): each field given or absent
UpdateUserRequests == [name : {"B", None}, email : {"j2@x.com", None}]

Ops == {"get_users", "get_user", "create_user", "update_user", "delete_user"}

NoArg == [id |-> 0, name |-> None, email |-> None]
NoRet == [tag |-> "NoRet"]

VARIABLES
    users,        \* UsersState.users : HashMap<u64, UserWithoutId>
    counter,      \* UsersState.counter : u64
    usersLock,    \* holder of the users mutex, or Unlocked
    counterLock,  \* holder of the counter mutex, or Unlocked
    pc,           \* where each caller is in its handler
    op,           \* the handler each caller runs
    arg,          \* the handler's arguments (path id, JSON body)
    tmp,          \* create_user: the counter value read by `+= 1`
    id,           \* create_user: the local `id`
    ret,          \* the value the method is about to return
    issued,       \* history: ids in the order the counter issued them
    returned,     \* history: ids in the order create_user returned them
    deleted,      \* history: ids removed by a successful delete_user
    created,      \* history: the body each id was created with, for the ids
                  \* no update_user or delete_user has found since
    abandoned,    \* history: the await point where a request was dropped,
                  \* until the next request arrives
    absUsers,     \* the map after the last completed operation
    absCounter,   \* the counter after the last completed operation
    step,         \* scripted run: how many requests of the script have arrived
    before,       \* watched run: per caller, the ids create_user had returned
                  \* when the caller's create request arrived
    variant,      \* exchange-rate exercises: the router under test
    rate,         \* the shared gbp-to-usd rate, in tenths
    rateLock,     \* holder of the rate's mutex, or Unlocked
    rpc,          \* where each request to the exchange-rate router is
    route,        \* the route each such request names
    body,         \* its body, a string
    parsed,       \* mutable_*_handler: the local body_as_f64, in tenths
    resp,         \* the response the handler is about to give
    stored        \* history: the rate the last completed set request stored

vars == <<users, counter, usersLock, counterLock, pc, op, arg, tmp, id, ret,
          issued, returned, deleted, created, abandoned, absUsers, absCounter,
          step, before, variant, rate, rateLock, rpc, route, body, parsed, resp,
          stored>>

store  == <<users, counter>>
locks  == <<usersLock, counterLock>>
locals == <<tmp, id, ret>>
hist   == <<issued, returned, deleted, created, abandoned>>
abs    == <<absUsers, absCounter>>
ghost  == <<step, before>>
rates  == <<variant, rate, rateLock, rpc, route, body, parsed, resp, stored>>

\* ----------------------------------------------------------- data helpers
\* (variant) the two fields are copied into each other's place
UserSwapped(k, u) == [id |-> k, name |-> u.email, email |-> u.name]

\* User { id, name, email } built from a map entry (context.rs 553-557, 564-568)
User(k, u) == [id |-> k, name |-> u.name, email |-> u.email]

\* HashMap::insert: the new value replaces an entry already under the key
Insert(m, k, u) == (k :> u) @@ m

\* (variant) the entry stays in the map
RemoveNothing(m, k) == m

\* (variant) every entry but the one asked for is taken out
RemoveOthers(m, k) == [j \in (DOMAIN m) \cap {k} |-> m[j]]

\* HashMap::remove
Remove(m, k) == [j \in (DOMAIN m) \ {k} |-> m[j]]

\* (variant) the increment is forgotten
BumpForgotten(n) == n

\* `*counter_guard += 1` writes the value read plus one.  The counter is a
\* u64; it stays below MaxCreates + 1 here, far from 2^64, so the addition
\* never overflows.
Bump(n) == n + 1

\* (variant) a lock that excludes nobody
LockIgnored(l) == TRUE

\* tokio::sync::Mutex: lock().await completes only while nobody holds it
LockFree(l) == l = Unlocked

\* (variant) a guard that is never released
GuardLeaked(holder) == holder

\* dropping a MutexGuard leaves the mutex without a holder
Dropped(holder) == Unlocked

\* (variant) the map is constructed with a record under id 0
SeededMap == 0 :> [name |-> "jdoe", email |-> "j@x.com"]

EmptyMap == [k \in {} |-> NoArg]

\* ------------------------------------------- exchange-rate exercises: values
\* The six routers the exercises build (context.rs 43-461)
Variants == {"closure", "closure_mutex", "state", "state_mutex",
             "generic_state", "extension"}
\* the routers whose rate sits in an Arc<Mutex<f64>>
MutexVariants == {"closure_mutex", "state_mutex"}
\* the routers whose handlers are todo!()
TodoVariants == {"generic_state", "extension"}

Routes == {"usd_to_gbp", "gbp_to_usd", "set_exchange_rate"}

\* Strings are sequences of characters.  An f64 is held as a whole number of
\* tenths; the request bodies below are chosen so that every product the
\* handlers form is exact in f64 and in tenths alike (1.3 * 100 = 130,
\* 1.3 * 2 = 2.6, 1.5 * 100 = 150, 1.5 * 2 = 3, 2 * 100 = 200, 2 * 2 = 4).
Chars == <<"0", "1", "2", "3", "4", "5", "6", "7", "8", "9">>
DigitOf(ch) == (CHOOSE i \in 1..Len(Chars) : Chars[i] = ch) - 1

\* `let gbp_to_usd_rate = 1.3` (context.rs 51, 136, 210, 261, 357)
InitialRate == 13
\* the prices asked about and the rates set
PriceBodies == {<<"1", "0", "0">>, <<"2">>}
RateBodies == {<<"1", ".", "5">>, <<"2">>}

RECURSIVE ParseDigits(_)
ParseDigits(str) ==
    IF str = <<>> THEN 0
    ELSE ParseDigits(SubSeq(str, 1, Len(str) - 1)) * 10 + DigitOf(str[Len(str)])

\* str.parse::<f64>().unwrap() of a decimal with at most one fraction digit
ParseF64(str) ==
    IF \E i \in 1..Len(str) : str[i] = "."
    THEN LET dot == CHOOSE i \in 1..Len(str) : str[i] = "."
         IN  ParseDigits(SubSeq(str, 1, dot - 1)) * 10
               + ParseDigits(SubSeq(str, dot + 1, Len(str)))
    ELSE ParseDigits(str) * 10

RECURSIVE Digits(_)
Digits(n) ==
    IF n < 10 THEN <<Chars[n + 1]>>
    ELSE Digits(n \div 10) \o <<Chars[(n % 10) + 1]>>

\* f64's Display, as format!("{}", x) and x.to_string() use it: no fraction
\* part for a whole number
to_string(x) ==
    IF x % 10 = 0 THEN Digits(x \div 10)
    ELSE Digits(x \div 10) \o <<".", Chars[(x % 10) + 1]>>

\* the f64 product of two numbers held in tenths
Mul(x, y) == (x * y) \div 10

\* convert_usd_to_gbp (context.rs 95-97)
convert_usd_to_gbp(usd, gbp_to_usd_rate) == to_string(Mul(ParseF64(usd), gbp_to_usd_rate))

Panicked == <<"panicked">>   \* the handler's future unwound: no response
Unit == <<>>                 \* the empty body of a `()` response

\* The router as the test builds it: the rate 1.3, no request in flight
RatesInit(v) ==
    /\ variant = v
    /\ rate = InitialRate
    /\ rateLock = Unlocked
    /\ rpc = [c \in Callers |-> "idle"]
    /\ route = [c \in Callers |-> None]
    /\ body = [c \in Callers |-> <<>>]
    /\ parsed = [c \in Callers |-> 0]
    /\ resp = [c \in Callers |-> <<>>]
    /\ stored = InitialRate

\* ------------------------------------------------------------------- Init
\* UsersState::new() (context.rs 541-546): an empty map and counter 0; no
\* request in flight and nothing observed yet
StoreInit ==
    /\ users = EmptyMap
    /\ counter = 0
    /\ usersLock = Unlocked
    /\ counterLock = Unlocked
    /\ pc = [c \in Callers |-> "idle"]
    /\ op = [c \in Callers |-> None]
    /\ arg = [c \in Callers |-> NoArg]
    /\ tmp = [c \in Callers |-> 0]
    /\ id = [c \in Callers |-> 0]
    /\ ret = [c \in Callers |-> NoRet]
    /\ issued = <<>>
    /\ returned = <<>>
    /\ deleted = {}
    /\ created = EmptyMap
    /\ abandoned = None
    /\ absUsers = EmptyMap
    /\ absCounter = 0
    /\ step = 0
    /\ before = [c \in Callers |-> {}]

Init == StoreInit /\ RatesInit(None)


\* ------------------------------------------- the methods, run undisturbed
\* What each UsersState method computes when nothing else runs between its
\* lock and its return: [users, counter, ret].

\* get_users (context.rs 548-559): every entry of the map as a User
get_users_seq(m, n) ==
    [users |-> m, counter |-> n,
     ret |-> [tag |-> "Users", users |-> {User(k, m[k]) : k \in DOMAIN m}]]

\* get_user (context.rs 561-569): Some(User) or None
get_user_seq(m, n, a) ==
    [users |-> m, counter |-> n,
     ret |-> IF a.id \in DOMAIN m
             THEN [tag |-> "Some", user |-> User(a.id, m[a.id])]
             ELSE [tag |-> "None"]]

\* create_user (context.rs 571-581)
create_user_seq(m, n, a) ==
    [users |-> Insert(m, Bump(n), [name |-> a.name, email |-> a.email]),
     counter |-> Bump(n),
     ret |-> [tag |-> "Id", id |-> Bump(n)]]

\* `if let Some(name) = update.name { user.name = name; }` (context.rs 587-589)
WithName(u, name) == IF name = None THEN u ELSE [u EXCEPT !.name = name]

\* (variant) an absent email clears the stored one
WithEmailCleared(u, email) == [u EXCEPT !.email = email]

\* `if let Some(email) = update.email { user.email = email; }` (context.rs 591-593)
WithEmail(u, email) == IF email = None THEN u ELSE [u EXCEPT !.email = email]

\* update_user (context.rs 583-599)
update_user_seq(m, n, a) ==
    IF a.id \in DOMAIN m
    THEN [users |-> [m EXCEPT ![a.id] = WithEmail(WithName(@, a.name), a.email)],
          counter |-> n, ret |-> [tag |-> "Ok"]]
    ELSE [users |-> m, counter |-> n, ret |-> [tag |-> "Err", id |-> a.id]]

\* delete_user (context.rs 601-609)
delete_user_seq(m, n, a) ==
    IF a.id \in DOMAIN m
    THEN [users |-> Remove(m, a.id), counter |-> n, ret |-> [tag |-> "Ok"]]
    ELSE [users |-> m, counter |-> n, ret |-> [tag |-> "Err", id |-> a.id]]

SeqOp(o, a, m, n) ==
    CASE o = "get_users"   -> get_users_seq(m, n)
      [] o = "get_user"    -> get_user_seq(m, n, a)
      [] o = "create_user" -> create_user_seq(m, n, a)
      [] o = "update_user" -> update_user_seq(m, n, a)
      [] o = "delete_user" -> delete_user_seq(m, n, a)

\* (variant) the get_user handler passes None on
ResponsePassing(o, a, r) == r

\* (variant) the get_user handler builds MissingUser with a default id
ResponseDefaultId(o, a, r) ==
    IF o = "get_user" /\ r.tag = "None" THEN [tag |-> "Err", id |-> 0] ELSE r

\* The axum handlers (context.rs 496-532) turn the method's value into the
\* response: get_user maps None to Err(MissingUser { id }); the others pass
\* the value on.
Response(o, a, r) ==
    IF o = "get_user" /\ r.tag = "None" THEN [tag |-> "Err", id |-> a.id] ELSE r

\* IntoResponse for MissingUser (context.rs 612-624): status NOT_FOUND and a
\* body of the id and the message format!("User with id {} not found", id)
into_response(e) ==
    [status |-> "NOT_FOUND",
     body |-> [id |-> e.id, message |-> <<"User with id ", e.id, " not found">>]]

\* ---------------------------------------------------------------- requests
IdArgs == {[id |-> k, name |-> None, email |-> None] : k \in Ids}

\* The arguments axum extracts for each route (context.rs 496-532)
ArgsOf(o) ==
    CASE o = "get_users"   -> {NoArg}
      [] o = "get_user"    -> IdArgs
      [] o = "create_user" -> {[id |-> 0, name |-> u.name, email |-> u.email] : u \in NewUsers}
      [] o = "update_user" -> {[id |-> k, name |-> r.name, email |-> r.email] :
                                 k \in Ids, r \in UpdateUserRequests}
      [] o = "delete_user" -> IdArgs
      [] OTHER             -> {}

\* create requests that have not yet written the counter
PendingCreates ==
    Cardinality({d \in Callers : op[d] = "create_user"
                     /\ pc[d] \in {"lock_users", "lock_counter", "load", "store"}})

\* The first statement after the users guard is taken, per method
FirstPc(o) ==
    CASE o = "get_users"   -> "get_users"
      [] o = "get_user"    -> "get_user"
      [] o = "create_user" -> "lock_counter"
      [] o = "update_user" -> "update_name"
      [] o = "delete_user" -> "remove"

\* A request for route o arrives: its handler calls the method, which starts
\* at `self.users.lock().await`.
Invoke(c, o) ==
    /\ pc[c] = "idle"
    /\ o = "create_user" => counter + PendingCreates < MaxCreates
    /\ pc' = [pc EXCEPT ![c] = "lock_users"]
    /\ op' = [op EXCEPT ![c] = o]
    /\ abandoned' = None
    /\ UNCHANGED <<store, locks, arg, locals, issued, returned, deleted, created, abs, rates>>

\* `let guard = self.users.lock().await;` completes.  Nothing reads the
\* request's arguments a before this point, so they are bound here.
LockUsers(c, a) ==
    /\ pc[c] = "lock_users"
    /\ LockFree(usersLock)
    /\ usersLock' = c
    /\ arg' = [arg EXCEPT ![c] = a]
    /\ pc' = [pc EXCEPT ![c] = FirstPc(op[c])]
    /\ UNCHANGED <<store, counterLock, op, locals, hist, abs, ghost, rates>>

\* get_users: iterate the map under the guard
get_users(c) ==
    /\ pc[c] = "get_users"
    /\ ret' = [ret EXCEPT ![c] =
                 [tag |-> "Users", users |-> {User(k, users[k]) : k \in DOMAIN users}]]
    /\ pc' = [pc EXCEPT ![c] = "return"]
    /\ UNCHANGED <<store, locks, op, arg, tmp, id, hist, abs, ghost, rates>>

\* (variant) the lookup takes the entry out of the map
get_user_take(c) ==
    /\ pc[c] = "get_user"
    /\ ret' = [ret EXCEPT ![c] =
                 IF arg[c].id \in DOMAIN users
                 THEN [tag |-> "Some", user |-> User(arg[c].id, users[arg[c].id])]
                 ELSE [tag |-> "None"]]
    /\ users' = Remove(users, arg[c].id)
    /\ pc' = [pc EXCEPT ![c] = "return"]
    /\ UNCHANGED <<counter, locks, op, arg, tmp, id, hist, abs, ghost, rates>>

\* get_user: guard.get(&id).map(..)
get_user(c) ==
    /\ pc[c] = "get_user"
    /\ ret' = [ret EXCEPT ![c] =
                 IF arg[c].id \in DOMAIN users
                 THEN [tag |-> "Some", user |-> User(arg[c].id, users[arg[c].id])]
                 ELSE [tag |-> "None"]]
    /\ pc' = [pc EXCEPT ![c] = "return"]
    /\ UNCHANGED <<store, locks, op, arg, tmp, id, hist, abs, ghost, rates>>

\* create_user: `let mut counter_guard = self.counter.lock().await;`
create_lock_counter(c) ==
    /\ pc[c] = "lock_counter"
    /\ LockFree(counterLock)
    /\ counterLock' = c
    /\ pc' = [pc EXCEPT ![c] = "load"]
    /\ UNCHANGED <<store, usersLock, op, arg, locals, hist, abs, ghost, rates>>

\* create_user: `*counter_guard += 1` reads the counter ...
create_load(c) ==
    /\ pc[c] = "load"
    /\ tmp' = [tmp EXCEPT ![c] = counter]
    /\ pc' = [pc EXCEPT ![c] = "store"]
    /\ UNCHANGED <<store, locks, op, arg, id, ret, hist, abs, ghost, rates>>

\* (variant) the id is taken from the size of the map, not from the counter
create_store_len(c) ==
    /\ pc[c] = "store"
    /\ counter' = Cardinality(DOMAIN users) + 1
    /\ pc' = [pc EXCEPT ![c] = "take"]
    /\ UNCHANGED <<users, locks, op, arg, locals, hist, abs, ghost, rates>>

\* ... and writes it back, one larger
create_store(c) ==
    /\ pc[c] = "store"
    /\ counter' = Bump(tmp[c])
    /\ pc' = [pc EXCEPT ![c] = "take"]
    /\ UNCHANGED <<users, locks, op, arg, locals, hist, abs, ghost, rates>>

\* create_user: the block's value `*counter_guard` becomes `id`, and the
\* counter guard is dropped at the end of the block
create_take(c) ==
    /\ pc[c] = "take"
    /\ id' = [id EXCEPT ![c] = counter]
    /\ counterLock' = Dropped(c)
    /\ issued' = Append(issued, counter)
    /\ pc' = [pc EXCEPT ![c] = "insert"]
    /\ UNCHANGED <<store, usersLock, op, arg, tmp, ret, returned, deleted, created, abandoned, abs, ghost, rates>>

\* (variant) the record is inserted under the id after the one returned
create_insert_next(c) ==
    /\ pc[c] = "insert"
    /\ users' = Insert(users, id[c] + 1, [name |-> arg[c].name, email |-> arg[c].email])
    /\ created' = Insert(created, id[c], [name |-> arg[c].name, email |-> arg[c].email])
    /\ ret' = [ret EXCEPT ![c] = [tag |-> "Id", id |-> id[c]]]
    /\ pc' = [pc EXCEPT ![c] = "return"]
    /\ UNCHANGED <<counter, locks, op, arg, tmp, id, issued, returned, deleted, abandoned, abs, ghost, rates>>

\* create_user: `guard.insert(id, user); id`
create_insert(c) ==
    /\ pc[c] = "insert"
    /\ users' = Insert(users, id[c], [name |-> arg[c].name, email |-> arg[c].email])
    /\ created' = Insert(created, id[c], [name |-> arg[c].name, email |-> arg[c].email])
    /\ ret' = [ret EXCEPT ![c] = [tag |-> "Id", id |-> id[c]]]
    /\ pc' = [pc EXCEPT ![c] = "return"]
    /\ UNCHANGED <<counter, locks, op, arg, tmp, id, issued, returned, deleted, abandoned, abs, ghost, rates>>

\* (variant) an update of a missing id inserts the record
update_name_upsert(c) ==
    /\ pc[c] = "update_name"
    /\ IF arg[c].id \in DOMAIN users
       THEN /\ users' = [users EXCEPT ![arg[c].id] = WithName(@, arg[c].name)]
            /\ created' = Remove(created, arg[c].id)
            /\ pc' = [pc EXCEPT ![c] = "update_email"]
            /\ ret' = ret
       ELSE /\ users' = Insert(users, arg[c].id, [name |-> arg[c].name, email |-> arg[c].email])
            /\ created' = created
            /\ ret' = [ret EXCEPT ![c] = [tag |-> "Ok"]]
            /\ pc' = [pc EXCEPT ![c] = "return"]
    /\ UNCHANGED <<counter, locks, op, arg, tmp, id, issued, returned, deleted, abandoned, abs, ghost, rates>>

\* update_user: guard.get_mut(&id), then the name field
update_name(c) ==
    /\ pc[c] = "update_name"
    /\ IF arg[c].id \in DOMAIN users
       THEN /\ users' = [users EXCEPT ![arg[c].id] = WithName(@, arg[c].name)]
            /\ created' = Remove(created, arg[c].id)
            /\ pc' = [pc EXCEPT ![c] = "update_email"]
            /\ ret' = ret
       ELSE /\ users' = users
            /\ created' = created
            /\ ret' = [ret EXCEPT ![c] = [tag |-> "Err", id |-> arg[c].id]]
            /\ pc' = [pc EXCEPT ![c] = "return"]
    /\ UNCHANGED <<counter, locks, op, arg, tmp, id, issued, returned, deleted, abandoned, abs, ghost, rates>>

\* update_user: the email field, then Ok(())
update_email(c) ==
    /\ pc[c] = "update_email"
    /\ users' = [users EXCEPT ![arg[c].id] = WithEmail(@, arg[c].email)]
    /\ ret' = [ret EXCEPT ![c] = [tag |-> "Ok"]]
    /\ pc' = [pc EXCEPT ![c] = "return"]
    /\ UNCHANGED <<counter, locks, op, arg, tmp, id, hist, abs, ghost, rates>>

\* (variant) the entry is looked up, not removed
remove_kept(c) ==
    /\ pc[c] = "remove"
    /\ users' = users
    /\ IF arg[c].id \in DOMAIN users
       THEN /\ deleted' = deleted \cup {arg[c].id}
            /\ created' = Remove(created, arg[c].id)
            /\ ret' = [ret EXCEPT ![c] = [tag |-> "Ok"]]
       ELSE /\ deleted' = deleted
            /\ created' = created
            /\ ret' = [ret EXCEPT ![c] = [tag |-> "Err", id |-> arg[c].id]]
    /\ pc' = [pc EXCEPT ![c] = "return"]
    /\ UNCHANGED <<counter, locks, op, arg, tmp, id, issued, returned, abandoned, abs, ghost, rates>>

\* delete_user: guard.remove(&id).is_some()
remove(c) ==
    /\ pc[c] = "remove"
    /\ IF arg[c].id \in DOMAIN users
       THEN /\ users' = Remove(users, arg[c].id)
            /\ deleted' = deleted \cup {arg[c].id}
            /\ created' = Remove(created, arg[c].id)
            /\ ret' = [ret EXCEPT ![c] = [tag |-> "Ok"]]
       ELSE /\ users' = users
            /\ deleted' = deleted
            /\ created' = created
            /\ ret' = [ret EXCEPT ![c] = [tag |-> "Err", id |-> arg[c].id]]
    /\ pc' = [pc EXCEPT ![c] = "return"]
    /\ UNCHANGED <<counter, locks, op, arg, tmp, id, issued, returned, abandoned, abs, ghost, rates>>

\* The method returns: the users guard goes out of scope and the value goes
\* to the handler.  The completed operation takes its place in the order of
\* completed operations.
Return(c) ==
    /\ pc[c] = "return"
    /\ usersLock' = Dropped(c)
    /\ returned' = IF op[c] = "create_user" THEN Append(returned, ret[c].id) ELSE returned
    /\ absUsers' = SeqOp(op[c], arg[c], absUsers, absCounter).users
    /\ absCounter' = SeqOp(op[c], arg[c], absUsers, absCounter).counter
    /\ pc' = [pc EXCEPT ![c] = "idle"]
    /\ op' = [op EXCEPT ![c] = None]
    /\ arg' = [arg EXCEPT ![c] = NoArg]
    /\ tmp' = [tmp EXCEPT ![c] = 0]
    /\ id' = [id EXCEPT ![c] = 0]
    /\ ret' = [ret EXCEPT ![c] = NoRet]
    /\ UNCHANGED <<store, counterLock, issued, deleted, created, abandoned, ghost, rates>>

\* (variant) the dropped request keeps the users guard it held
CancelKeepsGuard(c) ==
    /\ pc[c] \in {"lock_users", "lock_counter"}
    /\ abandoned' = pc[c]
    /\ pc' = [pc EXCEPT ![c] = "idle"]
    /\ op' = [op EXCEPT ![c] = None]
    /\ arg' = [arg EXCEPT ![c] = NoArg]
    /\ UNCHANGED <<store, locks, locals, issued, returned, deleted, created, abs, ghost, rates>>

\* The request's future is dropped while it is suspended at an .await: the
\* wait for the users lock, or in create_user the wait for the counter lock
\* (the users guard it holds is dropped with it).
Cancel(c) ==
    /\ pc[c] \in {"lock_users", "lock_counter"}
    /\ usersLock' = IF pc[c] = "lock_counter" THEN Dropped(c) ELSE usersLock
    /\ abandoned' = pc[c]
    /\ pc' = [pc EXCEPT ![c] = "idle"]
    /\ op' = [op EXCEPT ![c] = None]
    /\ arg' = [arg EXCEPT ![c] = NoArg]
    /\ UNCHANGED <<store, counterLock, locals, issued, returned, deleted, created, abs, ghost, rates>>

\* A step of the method body of caller c, between its locks and its return
Body(c) ==
    \/ get_users(c)
    \/ get_user(c)
    \/ create_load(c)
    \/ create_store(c)
    \/ create_take(c)
    \/ create_insert(c)
    \/ update_name(c)
    \/ update_email(c)
    \/ remove(c)

\* The users lock is granted to c, whatever arguments its request carries
LockUsersAny(c) == \E a \in ArgsOf(op[c]) : LockUsers(c, a)

\* A step of c's operation once it holds the users lock
Locked(c) == create_lock_counter(c) \/ Body(c) \/ Return(c)

\* A step that takes an operation of caller c in flight further
Progress(c) == LockUsersAny(c) \/ Locked(c)

\* A request arrives in a run that keeps no record of arrivals
Arrive(c, o) == Invoke(c, o) /\ UNCHANGED ghost

Next ==
    \E c \in Callers :
        \/ \E o \in Ops : Arrive(c, o)
        \/ Progress(c)
        \/ Cancel(c)

Spec == Init /\ [][Next]_vars

\* -------------------------------------------------------- scripted run
\* One caller sends the requests of a fixed script one after the other, each
\* after the answer to the one before; the other callers may only read.
Script ==
    << [op |-> "create_user", arg |-> [id |-> 0, name |-> "jdoe", email |-> "j@x.com"]],
       [op |-> "get_users",   arg |-> NoArg],
       [op |-> "update_user", arg |-> [id |-> 1, name |-> None, email |-> "j2@x.com"]],
       [op |-> "get_user",    arg |-> [id |-> 1, name |-> None, email |-> None]],
       [op |-> "delete_user", arg |-> [id |-> 1, name |-> None, email |-> None]],
       [op |-> "get_user",    arg |-> [id |-> 1, name |-> None, email |-> None]] >>

ReadOps == {"get_users", "get_user"}

\* The caller that runs the script
Scripted(c) == c = 1

\* The next request of the script arrives
InvokeScript(c) ==
    /\ Scripted(c)
    /\ step < Len(Script)
    /\ Invoke(c, Script[step + 1].op)
    /\ step' = step + 1
    /\ UNCHANGED before

\* The scripted request is granted the users lock
LockUsersScript(c) == Scripted(c) /\ LockUsers(c, Script[step].arg)

\* A read request of another caller arrives
ArriveRead(c) == ~Scripted(c) /\ \E o \in ReadOps : Arrive(c, o)

\* Such a read request is granted the users lock
LockUsersRead(c) == ~Scripted(c) /\ LockUsersAny(c)

ScenarioNext ==
    \E c \in Callers :
        \/ InvokeScript(c)
        \/ LockUsersScript(c)
        \/ ArriveRead(c)
        \/ LockUsersRead(c)
        \/ Locked(c)

ScenarioSpec == Init /\ [][ScenarioNext]_vars

\* --------------------------------------------------------- watched run
\* Callers send create_user and delete_user requests; the arrival of a
\* create request records the ids that create_user has returned by then.
ReturnedIds == {returned[i] : i \in 1..Len(returned)}

InvokeWatched(c) ==
    /\ Invoke(c, "create_user")
    /\ before' = [before EXCEPT ![c] = ReturnedIds]
    /\ UNCHANGED step

ArriveDelete(c) == Arrive(c, "delete_user")

OrderNext ==
    \E c \in Callers :
        \/ InvokeWatched(c)
        \/ ArriveDelete(c)
        \/ LockUsersAny(c)
        \/ create_lock_counter(c)
        \/ create_load(c)
        \/ create_store(c)
        \/ create_take(c)
        \/ create_insert(c)
        \/ remove(c)
        \/ Return(c)
        \/ Cancel(c)

OrderSpec == Init /\ [][OrderNext]_vars

\* ---------------------------------------------- exchange-rate exercises
storeVars == <<store, locks, pc, op, arg, locals, hist, abs, ghost>>

\* The routes each router is asked for here: the price conversion the tests
\* request on every router, and on the State<Arc<Mutex<f64>>> router also the
\* second conversion and the rate setter
RoutesOf(v) == IF v = "state_mutex" THEN Routes ELSE {"usd_to_gbp"}

BodiesOf(r) == IF r = "set_exchange_rate" THEN RateBodies ELSE PriceBodies

\* A request arrives at the router under test
Request(c, r, b) ==
    /\ rpc[c] = "idle"
    /\ r \in RoutesOf(variant)
    /\ rpc' = [rpc EXCEPT ![c] = "called"]
    /\ route' = [route EXCEPT ![c] = r]
    /\ body' = [body EXCEPT ![c] = b]
    /\ UNCHANGED <<variant, rate, rateLock, parsed, resp, stored, storeVars>>

\* Exercise 1: the closure converts with the rate it captured
closure_handler(c) ==
    /\ variant = "closure" /\ rpc[c] = "called"
    /\ resp' = [resp EXCEPT ![c] = convert_usd_to_gbp(body[c], rate)]
    /\ rpc' = [rpc EXCEPT ![c] = "done"]
    /\ UNCHANGED <<variant, rate, rateLock, route, body, parsed, stored, storeVars>>

\* Exercise 2: `let guard = arc.lock().await;`
closure_lock(c) ==
    /\ variant = "closure_mutex" /\ rpc[c] = "called"
    /\ LockFree(rateLock)
    /\ rateLock' = c
    /\ rpc' = [rpc EXCEPT ![c] = "locked"]
    /\ UNCHANGED <<variant, rate, route, body, parsed, resp, stored, storeVars>>

\* Exercise 2: `convert_usd_to_gbp(usd, *guard)`
closure_convert(c) ==
    /\ variant = "closure_mutex" /\ rpc[c] = "locked"
    /\ resp' = [resp EXCEPT ![c] = convert_usd_to_gbp(body[c], rate)]
    /\ rpc' = [rpc EXCEPT ![c] = "done"]
    /\ UNCHANGED <<variant, rate, rateLock, route, body, parsed, stored, storeVars>>

\* Exercise 3: usd_to_gbp_handler with State<f64>
usd_to_gbp_handler(c) ==
    /\ variant = "state" /\ rpc[c] = "called"
    /\ resp' = [resp EXCEPT ![c] = to_string(Mul(rate, ParseF64(body[c])))]
    /\ rpc' = [rpc EXCEPT ![c] = "done"]
    /\ UNCHANGED <<variant, rate, rateLock, route, body, parsed, stored, storeVars>>

\* Exercise 4: `let body_as_f64 = body.parse::<f64>().unwrap();`
mutable_parse(c) ==
    /\ variant = "state_mutex" /\ rpc[c] = "called"
    /\ parsed' = [parsed EXCEPT ![c] = ParseF64(body[c])]
    /\ rpc' = [rpc EXCEPT ![c] = "lock"]
    /\ UNCHANGED <<variant, rate, rateLock, route, body, resp, stored, storeVars>>

\* Exercise 4: `rate.lock().await`
mutable_lock(c) ==
    /\ variant = "state_mutex" /\ rpc[c] = "lock"
    /\ LockFree(rateLock)
    /\ rateLock' = c
    /\ rpc' = [rpc EXCEPT ![c] = "locked"]
    /\ UNCHANGED <<variant, rate, route, body, parsed, resp, stored, storeVars>>

\* (variant) the handler multiplies the shared rate in place
mutable_read_scaling(c) ==
    /\ variant = "state_mutex" /\ rpc[c] = "locked"
    /\ route[c] \in {"usd_to_gbp", "gbp_to_usd"}
    /\ rate' = Mul(rate, parsed[c])
    /\ resp' = [resp EXCEPT ![c] = to_string(Mul(rate, parsed[c]))]
    /\ rpc' = [rpc EXCEPT ![c] = "done"]
    /\ UNCHANGED <<variant, rateLock, route, body, parsed, stored, storeVars>>

\* Exercise 4: `(*guard * body_as_f64).to_string()` in
\* mutable_usd_to_gbp_handler and mutable_gbp_to_usd_handler alike
mutable_read(c) ==
    /\ variant = "state_mutex" /\ rpc[c] = "locked"
    /\ route[c] \in {"usd_to_gbp", "gbp_to_usd"}
    /\ resp' = [resp EXCEPT ![c] = to_string(Mul(rate, parsed[c]))]
    /\ rpc' = [rpc EXCEPT ![c] = "done"]
    /\ UNCHANGED <<variant, rate, rateLock, route, body, parsed, stored, storeVars>>

\* Exercise 4: `*guard = body_as_f64` in set_mutable_gbp_to_usd_handler
mutable_write(c) ==
    /\ variant = "state_mutex" /\ rpc[c] = "locked"
    /\ route[c] = "set_exchange_rate"
    /\ rate' = parsed[c]
    /\ resp' = [resp EXCEPT ![c] = Unit]
    /\ rpc' = [rpc EXCEPT ![c] = "done"]
    /\ UNCHANGED <<variant, rateLock, route, body, parsed, stored, storeVars>>

\* Exercises 5 and 6: the handler is `todo!(..)`
todo_handler(c) ==
    /\ variant \in TodoVariants /\ rpc[c] = "called"
    /\ resp' = [resp EXCEPT ![c] = Panicked]
    /\ rpc' = [rpc EXCEPT ![c] = "done"]
    /\ UNCHANGED <<variant, rate, rateLock, route, body, parsed, stored, storeVars>>

\* The handler returns: its guard, if it took one, is dropped, and the
\* request is complete
Respond(c) ==
    /\ rpc[c] = "done"
    /\ rateLock' = IF rateLock = c THEN Dropped(c) ELSE rateLock
    /\ stored' = IF route[c] = "set_exchange_rate" THEN rate ELSE stored
    /\ rpc' = [rpc EXCEPT ![c] = "idle"]
    /\ route' = [route EXCEPT ![c] = None]
    /\ body' = [body EXCEPT ![c] = <<>>]
    /\ parsed' = [parsed EXCEPT ![c] = 0]
    /\ resp' = [resp EXCEPT ![c] = <<>>]
    /\ UNCHANGED <<variant, rate, storeVars>>

RateInit == StoreInit /\ \E v \in Variants : RatesInit(v)

RateNext ==
    \E c \in Callers :
        \/ \E r \in Routes : \E b \in BodiesOf(r) : Request(c, r, b)
        \/ closure_handler(c)
        \/ closure_lock(c)
        \/ closure_convert(c)
        \/ usd_to_gbp_handler(c)
        \/ mutable_parse(c)
        \/ mutable_lock(c)
        \/ mutable_read(c)
        \/ mutable_write(c)
        \/ todo_handler(c)
        \/ Respond(c)

RateSpec == RateInit /\ [][RateNext]_vars

\* ----------------------------------------------------- fair scheduling
\* Whether an operation completes does not depend on the field values it
\* carries, only on the path it takes, so the fair specification draws one
\* body per route and the two ids that take the id routes down both of their
\* paths: 0, never a key, and 1, a key from the first create to its delete.
FairIdArgs == {a \in IdArgs : a.id <= 1}

FairArgsOf(o) ==
    CASE o = "get_users"   -> {NoArg}
      [] o = "get_user"    -> FairIdArgs
      [] o = "create_user" -> {[id |-> 0, name |-> "jdoe", email |-> "j@x.com"]}
      [] o = "update_user" -> {[id |-> a.id, name |-> "jdoe", email |-> None] : a \in FairIdArgs}
      [] o = "delete_user" -> FairIdArgs
      [] OTHER             -> {}

LockUsersFair(c) == \E a \in FairArgsOf(op[c]) : LockUsers(c, a)

FairNext ==
    \E c \in Callers :
        \/ \E o \in Ops : Arrive(c, o)
        \/ LockUsersFair(c)
        \/ Locked(c)
        \/ Cancel(c)

\* A fair mutex hands the lock to every waiter in turn, and a task that can
\* run is scheduled.
Fairness ==
    \A c \in Callers :
        /\ SF_vars(LockUsersFair(c))
        /\ SF_vars(create_lock_counter(c))
        /\ WF_vars(Body(c) \/ Return(c))

FairSpec == Init /\ [][FairNext]_vars /\ Fairness

\* ================================================================ claims
InFlight(c) == pc[c] # "idle"

\* Every id up to the counter is in the map or was deleted, and no other is
CounterMatchesMap ==
    \A k \in 1..(MaxCreates + 1) : (k <= counter) <=> (k \in DOMAIN users \cup deleted)

\* The steps at which a caller reads the map or the counter for the first time
\* since it took the lock
Observes(c) ==
    pc[c] \in {"get_users", "get_user", "lock_counter", "load", "update_name", "remove"}

\* C1: the ids create_user returns are strictly increasing in the order of the
\* returns, so none equals an earlier one, also when the record of the earlier
\* id has been deleted in between.
UniqueMonotonicIds ==
    \A i, j \in 1..Len(returned) : i < j => returned[i] < returned[j]

\* C1 witness: a create is about to return 2 after id 1 was returned and its
\* record deleted.
UniqueMonotonicIdsWitness ==
    \E c \in Callers :
        /\ pc[c] = "return" /\ op[c] = "create_user" /\ ret[c].id = 2
        /\ returned = <<1>> /\ 1 \in deleted

\* C2: concurrent creates return pairwise distinct ids, and when all of them
\* have returned and nothing was deleted the list holds one entry per create.
ConcurrentCreatesDistinct ==
    /\ \A i, j \in 1..Len(returned) : i # j => returned[i] # returned[j]
    /\ ((\A c \in Callers : op[c] # "create_user") /\ deleted = {})
          => /\ Cardinality(get_users_seq(users, counter).ret.users) = Len(returned)
             /\ counter = Len(returned)

\* C2 witness: two creates in flight at once, the first about to return its id.
ConcurrentCreatesWitness ==
    \E c, d \in Callers :
        /\ c # d
        /\ op[c] = "create_user" /\ pc[c] = "return" /\ ret[c].id = 1
        /\ op[d] = "create_user" /\ pc[d] = "lock_users"

\* C3: in every state an operation can observe (nobody holds the users lock,
\* or a caller is about to read the map or the counter under it), the counter
\* has been bumped for an id exactly if the id is in the map or was deleted.
CreateIsAtomic ==
    (usersLock = Unlocked \/ \E c \in Callers : Observes(c)) => CounterMatchesMap

\* C3 witness: a reader holds the lock after two creates and a delete.
CreateIsAtomicWitness ==
    \E c \in Callers : pc[c] = "get_users" /\ counter = 2 /\ deleted # {}

\* C4: the operations take effect one at a time in the order of their returns:
\* what an operation is about to return, and the map and counter it leaves,
\* are what the method computes alone from the state the previous operation
\* left; between operations the store is in that state.
Linearizable ==
    /\ usersLock = Unlocked => (users = absUsers /\ counter = absCounter)
    /\ \A c \in Callers :
         pc[c] = "return" =>
            LET s == SeqOp(op[c], arg[c], absUsers, absCounter)
            IN  ret[c] = s.ret /\ users = s.users /\ counter = s.counter

\* C4 witness: an update that found its record is about to return while
\* another request waits for the lock.
LinearizableWitness ==
    \E c, d \in Callers :
        /\ pc[c] = "return" /\ op[c] = "update_user" /\ ret[c].tag = "Ok"
        /\ arg[c].name # None /\ arg[c].email # None
        /\ pc[d] = "lock_users"

\* C5: whenever an operation is in flight, some caller can take a step of its
\* operation.
NoDeadlock ==
    (\E c \in Callers : InFlight(c)) => \E c \in Callers : ENABLED Progress(c)

\* C5 witness: a create holds the users lock and waits for the counter lock
\* while another request waits for the users lock.
NoDeadlockWitness ==
    \E c, d \in Callers : pc[c] = "lock_counter" /\ pc[d] = "lock_users"

\* C6: with fair locks, every operation in flight reaches its return, unless
\* its own caller drops it.
EveryOperationCompletes ==
    \A c \in Callers : (pc[c] = "lock_users") ~> (pc[c] = "return" \/ pc[c] = "idle")

\* C6 witness: a request waits for the users lock while another holds it in
\* the middle of an update.
EveryOperationCompletesWitness ==
    \E c, d \in Callers : pc[c] = "lock_users" /\ pc[d] = "update_email"

\* C7: after a request was dropped at an await point it holds no lock, some
\* operation in flight can step, and the store at rest is the one the last
\* completed operation left: no counter value without its insert, no update
\* applied in part.
CancelSafe ==
    abandoned # None =>
        /\ \A c \in Callers : pc[c] = "idle" => (usersLock # c /\ counterLock # c)
        /\ (\E c \in Callers : InFlight(c)) => \E c \in Callers : ENABLED Progress(c)
        /\ usersLock = Unlocked =>
              (CounterMatchesMap /\ users = absUsers /\ counter = absCounter)

\* C7 witness: a create was dropped while it held the users lock and waited
\* for the counter lock; the lock is free and another request waits for it.
CancelSafeWitness ==
    /\ abandoned = "lock_counter" /\ usersLock = Unlocked /\ counter >= 1
    /\ \E d \in Callers : pc[d] = "lock_users"

\* C8: every key of the map is a value the counter issued, and none is
\* greater than the counter.
KeysWereIssued ==
    \A k \in DOMAIN users :
        /\ \E i \in 1..Len(issued) : issued[i] = k
        /\ k <= counter

\* C8 witness: two ids issued, the first one deleted.
KeysWereIssuedWitness ==
    counter = 2 /\ DOMAIN users = {2} /\ usersLock = Unlocked

\* C9: once delete_user has removed k, every get_user, update_user and
\* delete_user of k answers not-found with id k, and no create_user returns k.
DeleteIsTerminal ==
    [][\A c \in Callers :
         /\ (pc[c] \in {"get_user", "update_name", "remove"}
               /\ pc'[c] # pc[c] /\ arg[c].id \in deleted)
              => /\ pc'[c] = "return"
                 /\ Response(op[c], arg[c], ret'[c]) = [tag |-> "Err", id |-> arg[c].id]
         /\ (pc[c] = "return" /\ pc'[c] = "idle" /\ op[c] = "create_user")
              => ret[c].id \notin deleted]_vars

\* C9 witness: a create is about to return while a record deleted earlier
\* stays deleted (the get, update or delete of it has answered not-found).
DeleteIsTerminalWitness ==
    \E c \in Callers :
        /\ pc[c] = "return" /\ op[c] \in {"get_user", "update_user", "delete_user"}
        /\ arg[c].id \in deleted /\ Response(op[c], arg[c], ret[c]).tag = "Err"
        /\ counter = 2

\* C10: create_user returns the counter value before the call plus one, the
\* record is in the map under exactly that id, and the first id issued is 1.
CreateAllocatesNext ==
    /\ \A c \in Callers :
         (op[c] = "create_user" /\ pc[c] = "return") =>
            /\ ret[c] = [tag |-> "Id", id |-> absCounter + 1]
            /\ counter = absCounter + 1
            /\ ret[c].id \in DOMAIN users
            /\ users[ret[c].id] = [name |-> arg[c].name, email |-> arg[c].email]
    /\ issued # <<>> => issued[1] = 1

\* C10 witness: the second create is about to return, the counter was 1.
CreateAllocatesNextWitness ==
    \E c \in Callers :
        op[c] = "create_user" /\ pc[c] = "return" /\ absCounter = 1 /\ ret[c].id = 2


\* The caller's method has computed its value and is about to return it
Returning(c, o) == pc[c] = "return" /\ op[c] = o

\* C11: a get_user of an id that no update_user or delete_user has found
\* since create_user stored it returns the body given to that create, with
\* the id the create returned.
ReadAfterWrite ==
    \A c \in Callers :
        (Returning(c, "get_user") /\ arg[c].id \in DOMAIN created) =>
            /\ ret[c].tag = "Some"
            /\ ret[c].user.id = arg[c].id
            /\ ret[c].user.name = created[arg[c].id].name
            /\ ret[c].user.email = created[arg[c].id].email

\* C11 witness: get_user of id 1 is about to return its record after a second
\* create has run.
ReadAfterWriteWitness ==
    \E c \in Callers :
        /\ Returning(c, "get_user") /\ arg[c].id = 1
        /\ 1 \in DOMAIN created /\ returned = <<1, 2>>

\* C12: an update_user of an id in the map answers Ok and leaves under the id
\* the given name and email where the request carries them and the ones
\* stored before the call where it does not.
PartialUpdate ==
    \A c \in Callers :
        (Returning(c, "update_user") /\ arg[c].id \in DOMAIN absUsers) =>
            /\ ret[c] = [tag |-> "Ok"]
            /\ arg[c].id \in DOMAIN users
            /\ users[arg[c].id].name =
                 (IF arg[c].name = None THEN absUsers[arg[c].id].name ELSE arg[c].name)
            /\ users[arg[c].id].email =
                 (IF arg[c].email = None THEN absUsers[arg[c].id].email ELSE arg[c].email)

\* C12 witness: {jdoe, j@x.com} updated with name B and no email has become
\* {B, j@x.com}.
PartialUpdateWitness ==
    \E c \in Callers :
        /\ Returning(c, "update_user") /\ arg[c].id \in DOMAIN absUsers
        /\ arg[c].name = "B" /\ arg[c].email = None
        /\ absUsers[arg[c].id] = [name |-> "jdoe", email |-> "j@x.com"]
        /\ users[arg[c].id] = [name |-> "B", email |-> "j@x.com"]

\* C13: an update_user of an id that is not in the map answers
\* Err(MissingUser { id }) and leaves the map and the counter as they were
\* before the call.
UpdateMissing ==
    \A c \in Callers :
        (Returning(c, "update_user") /\ arg[c].id \notin DOMAIN absUsers) =>
            /\ ret[c] = [tag |-> "Err", id |-> arg[c].id]
            /\ users = absUsers
            /\ counter = absCounter
            /\ arg[c].id \notin DOMAIN users

\* C13 witness: an update carrying both fields is about to answer not-found
\* for id 2 while id 1 is in the map.
UpdateMissingWitness ==
    \E c \in Callers :
        /\ Returning(c, "update_user") /\ arg[c].id = 2
        /\ arg[c].name # None /\ arg[c].email # None
        /\ DOMAIN absUsers = {1} /\ ret[c].tag = "Err"

\* C14: a delete_user of an id in the map answers Ok and leaves the map
\* without that entry and otherwise as before the call; a delete_user of an id
\* that is not in the map answers Err(MissingUser { id }) and leaves the map
\* and the counter as before the call.
DeleteRemoves ==
    \A c \in Callers :
        Returning(c, "delete_user") =>
            /\ counter = absCounter
            /\ IF arg[c].id \in DOMAIN absUsers
               THEN /\ ret[c] = [tag |-> "Ok"]
                    /\ DOMAIN users = (DOMAIN absUsers) \ {arg[c].id}
                    /\ \A k \in DOMAIN users : users[k] = absUsers[k]
               ELSE /\ ret[c] = [tag |-> "Err", id |-> arg[c].id]
                    /\ users = absUsers

\* C14 witness: id 1 has been removed from a map of two entries, and a second
\* delete of id 1 then answers not-found.
DeleteRemovesWitness ==
    \E c \in Callers :
        /\ Returning(c, "delete_user") /\ arg[c].id = 1
        /\ 1 \in deleted /\ DOMAIN absUsers = {2} /\ ret[c].tag = "Err"

\* The response the handler of caller c is about to give
Answer(c) == Response(op[c], arg[c], ret[c])

\* C15: get_user, update_user and delete_user answer Err exactly when the id
\* is not a key of the map at the call; Err(MissingUser) is the only error an
\* answer can be; create_user and get_users never answer Err.
NotFoundIffMissing ==
    \A c \in Callers :
        pc[c] = "return" =>
            /\ Answer(c).tag \in {"Users", "Some", "Id", "Ok", "Err"}
            /\ op[c] \in {"get_user", "update_user", "delete_user"} =>
                 (Answer(c).tag = "Err" <=> arg[c].id \notin DOMAIN absUsers)
            /\ op[c] = "create_user" => Answer(c).tag = "Id"
            /\ op[c] = "get_users" => Answer(c).tag = "Users"

\* C15 witness: a get_user of id 2 is about to answer with its record after
\* id 1 was deleted.
NotFoundIffMissingWitness ==
    \E c \in Callers :
        /\ pc[c] = "return" /\ op[c] = "get_user"
        /\ arg[c].id = 2 /\ Answer(c).tag = "Some" /\ deleted = {1}

\* C16: every Err answer is a MissingUser whose id is the id of the request,
\* and the 404 response made from it carries that id in its body and message.
MissingUserCarriesId ==
    \A c \in Callers :
        (pc[c] = "return" /\ Answer(c).tag = "Err") =>
            /\ DOMAIN Answer(c) = {"tag", "id"}
            /\ Answer(c).id = arg[c].id
            /\ into_response(Answer(c)) =
                 [status |-> "NOT_FOUND",
                  body |-> [id |-> arg[c].id,
                            message |-> <<"User with id ", arg[c].id, " not found">>]]

\* C16 witness: a get_user of id 2 is about to answer not-found while ids 1
\* and 2 have both been issued.
MissingUserCarriesIdWitness ==
    \E c \in Callers :
        /\ pc[c] = "return" /\ op[c] = "get_user"
        /\ arg[c].id = 2 /\ Answer(c).tag = "Err"
        /\ issued = <<1, 2>>

\* C17: while no create_user has been issued an id, get_user(0),
\* update_user(0, _) and delete_user(0) all answer Err(MissingUser { id: 0 }).
FreshStoreHasNoZero ==
    \A c \in Callers :
        (/\ pc[c] = "return" /\ issued = <<>> /\ arg[c].id = 0
         /\ op[c] \in {"get_user", "update_user", "delete_user"}) =>
            Answer(c) = [tag |-> "Err", id |-> 0]

\* C17 witness: an update of id 0 carrying a name is about to answer on the
\* store as constructed.
FreshStoreHasNoZeroWitness ==
    \E c \in Callers :
        /\ Returning(c, "update_user") /\ arg[c].id = 0 /\ arg[c].name = "B"
        /\ issued = <<>> /\ counter = 0 /\ users = EmptyMap

\* C18: get_user and get_users leave the map and the counter as they were
\* before the call.
ReadsHaveNoEffect ==
    \A c \in Callers :
        (pc[c] = "return" /\ op[c] \in {"get_user", "get_users"}) =>
            /\ users = absUsers
            /\ counter = absCounter

\* C18 witness: a get_user that found id 1 is about to return and the map
\* still holds ids 1 and 2.
ReadsHaveNoEffectWitness ==
    \E c \in Callers :
        /\ Returning(c, "get_user") /\ arg[c].id = 1 /\ ret[c].tag = "Some"
        /\ DOMAIN users = {1, 2} /\ counter = 2

\* C19: the list get_users returns has exactly one element per key of the map
\* as the completed operations left it, each with the fields stored under its
\* key; it never holds a part of what another operation is still doing.
ListIsSnapshot ==
    \A c \in Callers :
        Returning(c, "get_users") =>
            /\ ret[c].tag = "Users"
            /\ \A u \in ret[c].users :
                 /\ u.id \in DOMAIN absUsers
                 /\ u.name = absUsers[u.id].name
                 /\ u.email = absUsers[u.id].email
            /\ \A k \in DOMAIN absUsers : \E u \in ret[c].users : u.id = k
            /\ Cardinality(ret[c].users) = Cardinality(DOMAIN absUsers)

\* C19 witness: a list of two records, one of them updated in both fields, is
\* about to return while another caller waits for the map.
ListIsSnapshotWitness ==
    \E c, d \in Callers :
        /\ Returning(c, "get_users") /\ Cardinality(ret[c].users) = 2
        /\ \E u \in ret[c].users : u.name = "B" /\ u.email = "j2@x.com"
        /\ \E u \in ret[c].users : u.name = "jdoe"
        /\ pc[d] = "lock_users"

\* Caller c is between acquiring the users lock and dropping its guard
InCriticalSection(c) == pc[c] \notin {"idle", "lock_users"}

\* C20: at most one caller at a time is in the critical section on the map,
\* that caller is the holder of the users lock, only a caller inside it holds
\* the counter lock, and a caller whose operation has returned holds neither.
ExclusiveForDuration ==
    /\ \A c, d \in Callers :
         (InCriticalSection(c) /\ InCriticalSection(d)) => c = d
    /\ \A c \in Callers :
         /\ InCriticalSection(c) => usersLock = c
         /\ ~InCriticalSection(c) => (usersLock # c /\ counterLock # c)
         /\ counterLock = c => pc[c] \in {"load", "store", "take"}

\* C20 witness: one caller has returned from a create and is idle, a second
\* holds both locks inside its own create.
ExclusiveForDurationWitness ==
    \E c, d \in Callers :
        /\ pc[c] = "idle" /\ returned = <<1>>
        /\ pc[d] = "store" /\ usersLock = d /\ counterLock = d

\* C21: the counter never decreases; the only step that changes it is the
\* write-back of a create_user, which makes it one larger; a completed
\* create_user leaves it one above its value before the call, and a completed
\* get_users, get_user, update_user or delete_user leaves it at that value.
CounterMonotonic ==
    [][/\ counter' >= counter
       /\ counter' # counter =>
            /\ counter' = counter + 1
            /\ \E c \in Callers :
                 op[c] = "create_user" /\ pc[c] = "store" /\ pc'[c] = "take"
       /\ \A c \in Callers :
            (pc[c] = "return" /\ pc'[c] = "idle") =>
               counter = absCounter + (IF op[c] = "create_user" THEN 1 ELSE 0)]_vars

\* C21 witness: a delete_user that removed id 1 is about to return with the
\* counter still at 2.
CounterMonotonicWitness ==
    \E c \in Callers :
        /\ Returning(c, "delete_user") /\ ret[c].tag = "Ok" /\ arg[c].id = 1
        /\ counter = 2 /\ absCounter = 2

\* C24: after update_user(id, _) or delete_user(id), found or not, every
\* entry under another key is in the map with the fields it had before the
\* call and no other key has appeared; update_user leaves the key set as it
\* was.
OnlyTargetTouched ==
    \A c \in Callers :
        (pc[c] = "return" /\ op[c] \in {"update_user", "delete_user"}) =>
            /\ \A k \in (DOMAIN absUsers) \ {arg[c].id} :
                 k \in DOMAIN users /\ users[k] = absUsers[k]
            /\ (DOMAIN users) \ {arg[c].id} \subseteq DOMAIN absUsers
            /\ op[c] = "update_user" => DOMAIN users = DOMAIN absUsers

\* C24 witness: id 2 has been deleted from a map of ids 1 and 2 and id 1 is
\* still there.
OnlyTargetTouchedWitness ==
    \E c \in Callers :
        /\ Returning(c, "delete_user") /\ arg[c].id = 2 /\ ret[c].tag = "Ok"
        /\ DOMAIN absUsers = {1, 2} /\ DOMAIN users = {1}

\* C25: the id create_user returns was not a key before the call; after it
\* the keys are those from before plus that id, which holds the given record,
\* and every entry from before has its fields.
CreateAddsOneKey ==
    \A c \in Callers :
        Returning(c, "create_user") =>
            /\ ret[c].id \notin DOMAIN absUsers
            /\ DOMAIN users = (DOMAIN absUsers) \cup {ret[c].id}
            /\ users[ret[c].id] = [name |-> arg[c].name, email |-> arg[c].email]
            /\ \A k \in DOMAIN absUsers : users[k] = absUsers[k]

\* C25 witness: a create_user is about to return id 2 into a map that held
\* id 1 alone.
CreateAddsOneKeyWitness ==
    \E c \in Callers :
        /\ Returning(c, "create_user") /\ ret[c].id = 2
        /\ DOMAIN absUsers = {1} /\ DOMAIN users = {1, 2}

\* C26: 0 is never issued and never a key of the map, and get_user(0),
\* update_user(0, _) and delete_user(0) answer Err(MissingUser { id: 0 })
\* in every state of the store.
ZeroNeverIssued ==
    /\ 0 \notin DOMAIN users
    /\ \A i \in 1..Len(issued) : issued[i] >= 1
    /\ \A k \in DOMAIN users : k >= 1
    /\ \A c \in Callers :
         (/\ pc[c] = "return" /\ arg[c].id = 0
          /\ op[c] \in {"get_user", "update_user", "delete_user"}) =>
            Answer(c) = [tag |-> "Err", id |-> 0]

\* C26 witness: delete_user(0) is about to answer not-found on a store that
\* has issued two ids and deleted one of them.
ZeroNeverIssuedWitness ==
    \E c \in Callers :
        /\ Returning(c, "delete_user") /\ arg[c].id = 0
        /\ issued = <<1, 2>> /\ deleted = {1} /\ DOMAIN users = {2}

\* C28: update_user with name = None and email = None on an id in the map
\* answers Ok and leaves the map and the counter as before the call; on an
\* id that is not in the map it answers Err(MissingUser { id }).
EmptyUpdateIsNoop ==
    \A c \in Callers :
        (Returning(c, "update_user") /\ arg[c].name = None /\ arg[c].email = None) =>
            /\ users = absUsers
            /\ counter = absCounter
            /\ ret[c] = (IF arg[c].id \in DOMAIN absUsers
                         THEN [tag |-> "Ok"]
                         ELSE [tag |-> "Err", id |-> arg[c].id])

\* C28 witness: an update with no field has answered Ok on id 2, whose record
\* is the one it was created with.
EmptyUpdateIsNoopWitness ==
    \E c \in Callers :
        /\ Returning(c, "update_user") /\ arg[c].name = None /\ arg[c].email = None
        /\ arg[c].id = 2 /\ ret[c].tag = "Ok"
        /\ users[2] = [name |-> "B", email |-> "j2@x.com"]

\* C30: a caller takes the counter lock only inside create_user while it
\* holds the users lock; whoever gives up the users lock no longer holds the
\* counter lock; nobody takes the users lock while holding the counter lock;
\* a caller that asks for the counter lock finds it free; and no two callers
\* each hold one lock.
LockDiscipline ==
    [][/\ \A c \in Callers :
            /\ (counterLock' = c /\ counterLock # c) =>
                 usersLock = c /\ op[c] = "create_user"
            /\ (usersLock = c /\ usersLock' # c) => counterLock # c
            /\ (usersLock' = c /\ usersLock # c) => counterLock # c
            /\ pc'[c] = "lock_counter" => counterLock' = Unlocked
       /\ counterLock' # Unlocked => usersLock' = counterLock']_vars

\* C30 witness: one caller holds both locks while another waits for the
\* users lock with a create of its own.
LockDisciplineWitness ==
    \E c, d \in Callers :
        /\ pc[c] = "load" /\ usersLock = c /\ counterLock = c
        /\ pc[d] = "lock_users" /\ op[d] = "create_user"

\* What the scenario says each request of the script is answered with
Expected ==
    << [tag |-> "Id", id |-> 1],
       [tag |-> "Users", users |-> {[id |-> 1, name |-> "jdoe", email |-> "j@x.com"]}],
       [tag |-> "Ok"],
       [tag |-> "Some", user |-> [id |-> 1, name |-> "jdoe", email |-> "j2@x.com"]],
       [tag |-> "Ok"],
       [tag |-> "Err", id |-> 1] >>

\* C22: on an empty store one caller's create_user({jdoe, j@x.com}) answers
\* id 1, its get_users then one entry (1, jdoe, j@x.com), its
\* update_user(1, {email j2@x.com}) Ok, its get_user(1) then
\* (1, jdoe, j2@x.com), its delete_user(1) Ok and its last get_user(1)
\* Err(MissingUser { id: 1 }).
ScenarioHolds ==
    \A c \in Callers :
        (Scripted(c) /\ pc[c] = "return") =>
            /\ op[c] = Script[step].op
            /\ arg[c] = Script[step].arg
            /\ Answer(c) = Expected[step]

\* C22 witness: the last get_user(1) of the script is about to answer
\* not-found with every other caller idle.
ScenarioHoldsWitness ==
    \E c \in Callers :
        /\ Scripted(c) /\ step = Len(Script) /\ pc[c] = "return"
        /\ Answer(c) = [tag |-> "Err", id |-> 1]
        /\ \A d \in Callers \ {c} : pc[d] = "idle"

\* C27: the id a create_user returns is larger than every id a create_user
\* had returned when its request arrived; and the ids the completed creates
\* have returned are, without repetition, exactly 1 .. their number, so the N
\* creates completed after a moment with c completed ones returned
\* c+1 .. c+N.
RealTimeOrder ==
    /\ \A c \in Callers :
         Returning(c, "create_user") =>
            \A i \in before[c] : i < ret[c].id
    /\ ReturnedIds = 1..Len(returned)
    /\ Len(returned) = absCounter

\* C27 witness: a create_user that arrived after id 1 had been returned is
\* about to return id 2, while another caller waits with a delete.
RealTimeOrderWitness ==
    \E c, d \in Callers :
        /\ Returning(c, "create_user") /\ before[c] = {1} /\ ret[c].id = 2
        /\ pc[d] = "lock_users" /\ op[d] = "delete_user"

\* C23: on each of the six routers, a GET /usd_to_gbp request with body 100
\* while the shared rate is 1.3 is answered with the body 130.
EveryVariantAnswers130 ==
    \A c \in Callers :
        (/\ rpc[c] = "done" /\ route[c] = "usd_to_gbp"
         /\ body[c] = <<"1", "0", "0">> /\ rate = InitialRate) =>
            resp[c] = <<"1", "3", "0">>

\* A request to one of the two conversion routes
Reads(c) == route[c] \in {"usd_to_gbp", "gbp_to_usd"}

\* C29: on the State<Arc<Mutex<f64>>> router a conversion handler answers
\* with the product of its price and the rate stored by the last set request
\* that has completed (1.3 before any), the rate is still that one when the
\* handler has read it, and at most one request is between taking the lock
\* and returning.
RateReadsSerialized ==
    /\ \A c \in Callers :
         (variant = "state_mutex" /\ rpc[c] = "done" /\ Reads(c)) =>
            /\ resp[c] = to_string(Mul(stored, ParseF64(body[c])))
            /\ rate = stored
    /\ \A c, d \in Callers :
         (/\ variant \in MutexVariants
          /\ rpc[c] \in {"locked", "done"} /\ rpc[d] \in {"locked", "done"}) => c = d
    /\ (\A c \in Callers : ~(route[c] = "set_exchange_rate" /\ rpc[c] = "done")) =>
         rate = stored

\* C29 witness: after a set of 1.5 has completed, a conversion of 100 is about
\* to answer 150 while a request to set the rate to 2 waits for the lock.
RateReadsSerializedWitness ==
    \E c, d \in Callers :
        /\ variant = "state_mutex" /\ rpc[c] = "done" /\ Reads(c)
        /\ stored = 15 /\ resp[c] = <<"1", "5", "0">>
        /\ rpc[d] = "lock" /\ route[d] = "set_exchange_rate" /\ body[d] = <<"2">>

=============================================================================
